---- MODULE Spec2Model ----
(***************************************************************************)
(* Model of lib/encoders/nvenc.py: the NVENC encoder settings of the       *)
(* video_transcoder plugin.                                                *)
(*                                                                         *)
(* State: the external settings store (settings.get_setting /              *)
(* settings.set_setting), what `nvidia-smi -L` currently answers, and the  *)
(* outcome of the last call made on the module (its return value or the    *)
(* exception it raised, and the set_setting calls it made).                *)
(***************************************************************************)
EXTENDS Integers, Sequences, FiniteSets, TLC

VARIABLES settings, smi, ret

vars == <<settings, smi, ret>>

(***************************************************************************)
(* Bounds of the model.                                                    *)
(***************************************************************************)
\* GPUs nvidia-smi can list: indices 0 .. MaxDevices-1.
MaxDevices == 2
\* Stream ids passed to args: 0 .. MaxStream.
MaxStream == 1
\* Stored look-ahead values: 0 .. MaxLookahead (the slider allows 0 .. 30).
MaxLookahead == 2

(***************************************************************************)
(* Python values.  A value is tagged by its type, so that values of        *)
(* different types are unequal, as in Python.                              *)
(***************************************************************************)
PyNone == [none |-> TRUE]
PyStr(s) == [str |-> s]
PyInt(n) == [int |-> n]
PyBool(b) == [bool |-> b]
PyDict(d) == [dict |-> d]

IsNone(v) == "none" \in DOMAIN v
IsStr(v) == "str" \in DOMAIN v
IsInt(v) == "int" \in DOMAIN v
IsBool(v) == "bool" \in DOMAIN v
IsDict(v) == "dict" \in DOMAIN v

\* bool(v): None, "", 0, False and {} are false.
Truthy(v) ==
    CASE IsNone(v) -> FALSE
      [] IsStr(v)  -> v.str # ""
      [] IsInt(v)  -> v.int # 0
      [] IsBool(v) -> v.bool
      [] IsDict(v) -> DOMAIN v.dict # {}

\* str(v) and "{}".format(v), for the types the settings hold.
Str(v) ==
    CASE IsNone(v) -> "None"
      [] IsStr(v)  -> v.str
      [] IsInt(v)  -> ToString(v.int)
      [] IsBool(v) -> IF v.bool THEN "True" ELSE "False"

(***************************************************************************)
(* The settings store.                                                     *)
(***************************************************************************)
get_setting(key) == settings[key]

\* settings.get_setting(key, default), a call into the plugin host's settings
\* object: the default stands in for a value that is not set.
get_setting_or(key, default) ==
    IF IsNone(settings[key]) THEN default ELSE settings[key]

\* The store after settings.set_setting(key, value).
set_setting(store, key, value) == [store EXCEPT ![key] = value]

\* NvencEncoder.options(): the default of every option.
options ==
    [ nvenc_device                        |-> PyStr("none"),
      nvenc_decoding_method               |-> PyStr("cpu"),
      nvenc_preset                        |-> PyStr("p4"),
      nvenc_tune                          |-> PyStr("auto"),
      nvenc_profile                       |-> PyStr("main"),
      pixel_format                        |-> PyStr("auto"),
      nvenc_encoder_ratecontrol_method    |-> PyStr("auto"),
      nvenc_encoder_ratecontrol_lookahead |-> PyInt(0),
      enable_spatial_aq                   |-> PyBool(FALSE),
      enable_temporal_aq                  |-> PyBool(FALSE),
      aq_strength                         |-> PyInt(8) ]

(***************************************************************************)
(* nvidia-smi and list_available_cuda_devices.                             *)
(***************************************************************************)
DeviceIndex == 0 .. (MaxDevices - 1)

\* The GPU ids nvidia-smi can print.
DeviceIds == { ToString(i) : i \in DeviceIndex }

\* One "GPU <id>: <name> (UUID: <uuid>)" line, as re.findall returns it.
GpuLine(i) == <<ToString(i), "Card " \o ToString(i), "GPU-" \o ToString(i)>>

RECURSIVE LinesOf(_, _)
\* The lines of the GPUs in S with an index >= i, in index order.
LinesOf(S, i) ==
    IF i >= MaxDevices THEN <<>>
    ELSE (IF i \in S THEN <<GpuLine(i)>> ELSE <<>>) \o LinesOf(S, i + 1)

\* What running `nvidia-smi -L` can do: print the lines of the GPUs present,
\* be missing (FileNotFoundError) or exit non-zero (CalledProcessError).
SmiOutcomes ==
    { [error |-> "", gpu_info |-> LinesOf(S, 0)] : S \in SUBSET DeviceIndex }
    \cup { [error |-> e, gpu_info |-> <<>>] :
             e \in {"FileNotFoundError", "CalledProcessError"} }

\* The dict built for one GPU line.
gpu_dict(line) ==
    [ hwaccel_device      |-> line[1],
      hwaccel_device_name |-> line[2] \o " (UUID: " \o line[3] \o ")" ]

list_available_cuda_devices(outcome) ==
    IF outcome.error # "" THEN <<>>
    ELSE [ n \in 1 .. Len(outcome.gpu_info) |-> gpu_dict(outcome.gpu_info[n]) ]

(***************************************************************************)
(* generate_default_args and generate_filtergraphs.                        *)
(***************************************************************************)

\* Mutant: the configured device is never looked up.
select_first_device(hardware_devices) == PyDict(hardware_devices[1])

\* Lines 104-114: the configured device when it is one of hardware_devices
\* (the first one with that id), else the first of hardware_devices.
select_hardware_device(hardware_devices) ==
    LET matching == { n \in 1 .. Len(hardware_devices) :
                        get_setting("nvenc_device")
                          = PyStr(hardware_devices[n].hwaccel_device) }
        hardware_device ==
            IF get_setting("nvenc_device") # PyStr("none") /\ matching # {}
            THEN PyDict(hardware_devices[
                     CHOOSE n \in matching : \A m \in matching : n <= m])
            ELSE PyNone
    IN  IF ~Truthy(hardware_device)
        THEN PyDict(hardware_devices[1])
        ELSE hardware_device

\* Mutant: no decoder options outside standard mode.
decoder_kwargs_standard_only(hardware_device) ==
    IF get_setting("nvenc_decoding_method") # PyStr("cpu")
       /\ get_setting("mode") = PyStr("standard")
    THEN << <<"-hwaccel", get_setting("enabled_hw_decoding")>>,
            <<"-hwaccel_device", hardware_device>>,
            <<"-init_hw_device",
              PyStr(Str(get_setting("enabled_hw_decoding")) \o "=hw")>>,
            <<"-filter_hw_device", PyStr("hw")>> >>
    ELSE <<>>

\* Lines 116-125: the dict of decoder options, as its items in insertion order.
decoder_kwargs(hardware_device) ==
    IF get_setting("nvenc_decoding_method") # PyStr("cpu")
    THEN << <<"-hwaccel", get_setting("enabled_hw_decoding")>>,
            <<"-hwaccel_device", hardware_device>>,
            <<"-init_hw_device",
              PyStr(Str(get_setting("enabled_hw_decoding")) \o "=hw")>>,
            <<"-filter_hw_device", PyStr("hw")>> >>
    ELSE <<>>

\* Mutant: the devices are only required when the decoder uses one.
generate_default_args_cpu_unchecked ==
    LET hardware_devices == list_available_cuda_devices(smi) IN
    IF hardware_devices = <<>>
    THEN IF get_setting("nvenc_decoding_method") # PyStr("cpu")
         THEN [ op |-> "generate_default_args",
                raised |-> "No VAAPI device found" ]
         ELSE [ op              |-> "generate_default_args",
                raised          |-> "",
                hardware_device |-> PyNone,
                generic_kwargs  |-> <<>>,
                advanced_kwargs |-> <<>> ]
    ELSE LET hardware_device == select_hardware_device(hardware_devices) IN
         [ op              |-> "generate_default_args",
           raised          |-> "",
           hardware_device |-> hardware_device,
           generic_kwargs  |-> decoder_kwargs(hardware_device),
           advanced_kwargs |-> <<>> ]

\* The outcome of generate_default_args(settings): the exception raised, or
\* the pair (generic_kwargs, advanced_kwargs) returned.  hardware_device is
\* the local variable of that name when the function returns.
generate_default_args ==
    LET hardware_devices == list_available_cuda_devices(smi) IN
    IF hardware_devices = <<>>
    THEN [ op |-> "generate_default_args", raised |-> "No VAAPI device found" ]
    ELSE LET hardware_device == select_hardware_device(hardware_devices) IN
         [ op              |-> "generate_default_args",
           raised          |-> "",
           hardware_device |-> hardware_device,
           generic_kwargs  |-> decoder_kwargs(hardware_device),
           advanced_kwargs |-> <<>> ]

\* generate_filtergraphs(): takes no argument and reads no setting.
generate_filtergraphs ==
    [ op |-> "generate_filtergraphs", raised |-> "",
      filtergraphs |-> <<"hwupload_cuda">> ]

(***************************************************************************)
(* args(stream_id).                                                        *)
(***************************************************************************)
\* "<flag>:{}".format(stream_id)
StreamFlag(flag, stream_id) == flag \o ":" \o ToString(stream_id)

\* Mutant: basic mode reads the stored preset and profile.
basic_stream_encoding_stored(stream_id) ==
    << "-preset", Str(get_setting("nvenc_preset")),
       StreamFlag("-profile:v", stream_id), Str(get_setting("nvenc_profile")) >>

\* Lines 141-148: basic mode uses the defaults of options().
basic_stream_encoding(stream_id) ==
    << "-preset", Str(options.nvenc_preset),
       StreamFlag("-profile:v", stream_id), Str(options.nvenc_profile) >>

\* Lines 150-156: the preset, the tune and the profile.
preset_tune_encoding(stream_id) ==
    (IF Truthy(get_setting("nvenc_preset"))
     THEN <<"-preset", Str(get_setting("nvenc_preset"))>> ELSE <<>>)
    \o (IF Truthy(get_setting("nvenc_tune"))
        THEN <<"-tune", Str(get_setting("nvenc_tune"))>> ELSE <<>>)
    \o (IF Truthy(get_setting("nvenc_tune"))
        THEN <<StreamFlag("-profile:v", stream_id),
               Str(get_setting("nvenc_profile"))>>
        ELSE <<>>)

\* Lines 158-168: the rate control method and look-ahead.
ratecontrol_encoding(stream_id) ==
    (IF get_setting_or("nvenc_encoder_ratecontrol_method", PyStr("auto"))
          # PyStr("auto")
     THEN <<StreamFlag("-rc:v", stream_id),
            Str(get_setting("nvenc_encoder_ratecontrol_method"))>>
     ELSE <<>>)
    \o (IF Truthy(get_setting("nvenc_encoder_ratecontrol_lookahead"))
        THEN <<StreamFlag("-rc-lookahead:v", stream_id),
               Str(get_setting("nvenc_encoder_ratecontrol_lookahead"))>>
        ELSE <<>>)

\* Mutant: the strength is given only when both AQ modes are on.
aq_encoding_both(stream_id) ==
    (IF Truthy(get_setting("enable_spatial_aq"))
     THEN <<"-spatial-aq", "1">> ELSE <<>>)
    \o (IF Truthy(get_setting("enable_temporal_aq"))
        THEN <<"-temporal-aq", "1">> ELSE <<>>)
    \o (IF Truthy(get_setting("enable_spatial_aq"))
           /\ Truthy(get_setting("enable_temporal_aq"))
        THEN <<StreamFlag("-aq-strength:v", stream_id),
               Str(get_setting("aq_strength"))>>
        ELSE <<>>)

\* Lines 170-176: adaptive quantization.
aq_encoding(stream_id) ==
    (IF Truthy(get_setting("enable_spatial_aq"))
     THEN <<"-spatial-aq", "1">> ELSE <<>>)
    \o (IF Truthy(get_setting("enable_temporal_aq"))
        THEN <<"-temporal-aq", "1">> ELSE <<>>)
    \o (IF Truthy(get_setting("enable_spatial_aq"))
           \/ Truthy(get_setting("enable_temporal_aq"))
        THEN <<StreamFlag("-aq-strength:v", stream_id),
               Str(get_setting("aq_strength"))>>
        ELSE <<>>)

\* The list args(stream_id) returns.
stream_encoding(stream_id) ==
    IF get_setting("mode") \in {PyStr("basic")}
    THEN basic_stream_encoding(stream_id)
    ELSE preset_tune_encoding(stream_id)
         \o ratecontrol_encoding(stream_id)
         \o aq_encoding(stream_id)

args(stream_id) ==
    [ op |-> "args", raised |-> "", stream_id |-> stream_id,
      stream_encoding |-> stream_encoding(stream_id) ]

(***************************************************************************)
(* __set_default_option.                                                   *)
(***************************************************************************)
RECURSIVE first_default(_, _)
\* The loop "for v in values: if not default_option: default_option = v"
\* (lines 189-192, and 212-214 over the devices' ids): default_option when
\* it is set, else the first value that is.
first_default(values, default_option) ==
    IF values = <<>> THEN default_option
    ELSE first_default(Tail(values),
                       IF ~Truthy(default_option) THEN Head(values)
                       ELSE default_option)

\* The 'value' of every option, in order.
option_values(select_options) ==
    [ n \in 1 .. Len(select_options) |-> select_options[n].value ]

\* Mutant: the default is written whatever the stored value is.
set_default_option_always(select_options, key, default_option) ==
    LET available_options == option_values(select_options)
        default == first_default(available_options, default_option)
    IN  << <<key, default>> >>

\* The set_setting calls __set_default_option(select_options, key,
\* default_option) makes, as <<key, value>> pairs.
set_default_option(select_options, key, default_option) ==
    LET available_options == option_values(select_options)
        default == first_default(available_options, default_option)
    IN  IF \A n \in 1 .. Len(available_options) :
               get_setting(key) # available_options[n]
        THEN << <<key, default>> >>
        ELSE <<>>

RECURSIVE apply_calls(_, _)
\* The store after the set_setting calls of `calls`, in order.
apply_calls(store, calls) ==
    IF calls = <<>> THEN store
    ELSE apply_calls(set_setting(store, Head(calls)[1], Head(calls)[2]),
                     Tail(calls))

(***************************************************************************)
(* The form settings.  A descriptor is the dict `values` without its       *)
(* 'description' and without the labels of fixed select options, which     *)
(* nothing reads.                                                          *)
(***************************************************************************)
\* dict.get(key, default)
DictGet(d, key, default) == IF key \in DOMAIN d THEN d[key] ELSE default

\* values[key] = value
SetKey(values, key, value) ==
    [ k \in DOMAIN values \cup {key} |-> IF k = key THEN value ELSE values[k] ]

\* select_options with the given values.
SelectOptions(vs) == [ n \in 1 .. Len(vs) |-> [value |-> PyStr(vs[n])] ]

\* if self.settings.get_setting('mode') not in ['standard']:
\*     values["display"] = "hidden"
hide_unless_standard(values) ==
    IF get_setting("mode") \notin {PyStr("standard")}
    THEN SetKey(values, "display", "hidden")
    ELSE values

\* Lines 201-218: the select options of the device descriptor.
device_select_options(hardware_devices) ==
    IF hardware_devices # <<>>
    THEN [ n \in 1 .. Len(hardware_devices) |->
             [ value |-> PyStr(DictGet(hardware_devices[n],
                                       "hwaccel_device", "none")),
               label |-> "NVIDIA device '"
                         \o DictGet(hardware_devices[n],
                                    "hwaccel_device_path", "not found")
                         \o "'" ] ]
    ELSE << [ value |-> PyStr("none"),
              label |-> "No NVIDIA devices available" ] >>

\* Mutant: the default stays 'none' whatever is discovered.
device_default_option_none(hardware_devices) == PyStr("none")

\* Lines 208-220: the default of the device descriptor.
device_default_option(hardware_devices) ==
    LET ids == [ n \in 1 .. Len(hardware_devices) |->
                   PyStr(DictGet(hardware_devices[n], "hwaccel_device", "none")) ]
        default_option == first_default(ids, PyNone)
    IN  IF ~Truthy(default_option) THEN PyStr("none") ELSE default_option

nvenc_device_values ==
    hide_unless_standard(
        [ label          |-> "NVIDIA Device",
          sub_setting    |-> TRUE,
          input_type     |-> "select",
          select_options |->
              device_select_options(list_available_cuda_devices(smi)) ])

nvenc_decoding_method_values ==
    hide_unless_standard(
        [ label          |-> "Enable HW Decoding",
          sub_setting    |-> TRUE,
          input_type     |-> "select",
          select_options |-> SelectOptions(<<"cpu", "cuda", "nvdec">>) ])

nvenc_preset_options ==
    SelectOptions(<<"p1", "p2", "p3", "p4", "p5", "p6", "p7">>)

nvenc_preset_values ==
    hide_unless_standard(
        [ label          |-> "Encoder quality preset",
          sub_setting    |-> TRUE,
          input_type     |-> "select",
          select_options |-> nvenc_preset_options ])

nvenc_tune_options ==
    SelectOptions(<<"auto", "hq", "ll", "ull", "lossless">>)

nvenc_tune_values ==
    hide_unless_standard(
        [ label          |-> "Tune for a particular type of source or situation",
          sub_setting    |-> TRUE,
          input_type     |-> "select",
          select_options |-> nvenc_tune_options ])

nvenc_profile_options ==
    SelectOptions(<<"auto", "baseline", "main", "high", "high444p">>)

nvenc_profile_values ==
    hide_unless_standard(
        [ label          |-> "Profile",
          sub_setting    |-> TRUE,
          input_type     |-> "select",
          select_options |-> nvenc_profile_options ])

pixel_format_options ==
    SelectOptions(<<"auto", "yuv420p", "yuv422p", "yuv444p", "nv12", "p010le",
                    "p016le", "yuv420p10le", "yuv444p16le">>)

pixel_format_values ==
    hide_unless_standard(
        [ label          |-> "Encoder pixel format",
          sub_setting    |-> TRUE,
          input_type     |-> "select",
          select_options |-> pixel_format_options ])

nvenc_encoder_ratecontrol_method_options ==
    SelectOptions(<<"auto", "constqp", "vbr", "vbr_hq", "cbr", "cbr_hq">>)

nvenc_encoder_ratecontrol_method_values ==
    hide_unless_standard(
        [ label          |-> "Encoder ratecontrol method",
          sub_setting    |-> TRUE,
          input_type     |-> "select",
          select_options |-> nvenc_encoder_ratecontrol_method_options ])

nvenc_encoder_ratecontrol_lookahead_values ==
    hide_unless_standard(
        [ label          |-> "Configure the number of frames to look ahead for rate-control",
          sub_setting    |-> TRUE,
          input_type     |-> "slider",
          slider_options |-> [min |-> 0, max |-> 30] ])

enable_spatial_aq_values ==
    hide_unless_standard(
        [ label       |-> "Enable Spatial Adaptive Quantization",
          sub_setting |-> TRUE ])

enable_temporal_aq_values ==
    hide_unless_standard(
        [ label       |-> "Enable Temporal Adaptive Quantization",
          sub_setting |-> TRUE ])

\* Mutant: hidden as soon as one of the AQ modes is off.
aq_strength_display_either(values) ==
    LET v == hide_unless_standard(values) IN
    IF ~Truthy(get_setting("enable_spatial_aq"))
       \/ ~Truthy(get_setting("enable_temporal_aq"))
    THEN SetKey(v, "display", "hidden")
    ELSE v

\* Lines 506-509: hidden unless standard, and hidden when neither AQ is on.
aq_strength_display(values) ==
    LET v == hide_unless_standard(values) IN
    IF ~Truthy(get_setting("enable_spatial_aq"))
       /\ ~Truthy(get_setting("enable_temporal_aq"))
    THEN SetKey(v, "display", "hidden")
    ELSE v

aq_strength_values ==
    aq_strength_display(
        [ label          |-> "Strength of the adaptive quantization",
          sub_setting    |-> TRUE,
          input_type     |-> "slider",
          slider_options |-> [min |-> 0, max |-> 15] ])

(***************************************************************************)
(* Initial states.                                                         *)
(***************************************************************************)
\* The store with every option at its default, in standard mode.  The key
\* 'enabled_hw_decoding' is no option of this encoder: it is not set.
DefaultSettings ==
    [ k \in DOMAIN options \cup {"mode", "enabled_hw_decoding"} |->
        CASE k = "mode" -> PyStr("standard")
          [] k = "enabled_hw_decoding" -> PyNone
          [] OTHER -> options[k] ]

Modes == { PyStr("basic"), PyStr("standard"), PyStr("advanced") }
Booleans == { PyBool(FALSE), PyBool(TRUE) }

\* A configured device: 'none', the id of a GPU that can be listed, or the id
\* of a GPU that is never listed.
ConfiguredDevices ==
    { PyStr("none") } \cup { PyStr(ToString(i)) : i \in 0 .. MaxDevices }

NoCall == [ op |-> "init", raised |-> "" ]

\* Stores that differ in what the form settings read.
FormSettings ==
    { [ DefaultSettings EXCEPT
          !.mode = m, !.nvenc_device = d, !.nvenc_preset = p, !.nvenc_tune = t,
          !.nvenc_profile = pr, !.pixel_format = pf,
          !.nvenc_encoder_ratecontrol_method = rc,
          !.enable_spatial_aq = sa, !.enable_temporal_aq = ta ] :
        m \in Modes, d \in ConfiguredDevices,
        p \in { PyNone, PyStr("p1") },
        t \in { PyNone, PyStr("hq") },
        pr \in { PyNone, PyStr("main") },
        pf \in { PyNone, PyStr("auto") },
        rc \in { PyNone, PyStr("auto") },
        sa \in Booleans, ta \in Booleans }

\* Stores that differ in what args reads.
ArgsSettings ==
    { [ DefaultSettings EXCEPT
          !.mode = m, !.nvenc_preset = p, !.nvenc_tune = t,
          !.nvenc_profile = pr,
          !.nvenc_encoder_ratecontrol_method = rc,
          !.nvenc_encoder_ratecontrol_lookahead = la,
          !.enable_spatial_aq = sa, !.enable_temporal_aq = ta,
          !.aq_strength = aq ] :
        m \in Modes,
        p \in { PyNone, PyStr("p1"), PyStr("p4") },
        t \in { PyNone, PyStr("auto"), PyStr("hq") },
        pr \in { PyStr("auto"), PyStr("main"), PyStr("high") },
        rc \in { PyNone, PyStr("auto"), PyStr("vbr") },
        la \in { PyInt(n) : n \in 0 .. MaxLookahead },
        sa \in Booleans, ta \in Booleans,
        aq \in { PyInt(0), PyInt(8), PyInt(15) } }

\* Stores that differ in what generate_default_args reads.
DecodeSettings ==
    { [ DefaultSettings EXCEPT
          !.mode = m, !.nvenc_device = d, !.nvenc_decoding_method = dm,
          !.enabled_hw_decoding = hw ] :
        m \in Modes, d \in ConfiguredDevices,
        dm \in { PyStr("cpu"), PyStr("cuda"), PyStr("nvdec") },
        hw \in { PyNone, PyStr("cuda"), PyStr("nvdec") } }

\* Stores that differ in what the defaulter reads: every defaulted key is
\* not set, or set to a value that is allowed but is not the default.
DefaulterSettings ==
    { [ DefaultSettings EXCEPT
          !.nvenc_device = d, !.nvenc_preset = p, !.nvenc_tune = t,
          !.nvenc_profile = pr, !.pixel_format = pf,
          !.nvenc_encoder_ratecontrol_method = rc ] :
        d \in ConfiguredDevices,
        p \in { PyNone, PyStr("p7") },
        t \in { PyNone, PyStr("hq") },
        pr \in { PyNone, PyStr("high") },
        pf \in { PyNone, PyStr("nv12") },
        rc \in { PyNone, PyStr("vbr") } }

Init ==
    /\ settings \in FormSettings
    /\ smi \in SmiOutcomes
    /\ ret = NoCall

InitDefaulter ==
    /\ settings \in DefaulterSettings
    /\ smi \in SmiOutcomes
    /\ ret = NoCall

InitArgs ==
    /\ settings \in ArgsSettings
    /\ smi \in SmiOutcomes
    /\ ret = NoCall

InitDecode ==
    /\ settings \in DecodeSettings
    /\ smi \in SmiOutcomes
    /\ ret = NoCall

(***************************************************************************)
(* Actions: one per call.                                                  *)
(***************************************************************************)
GenerateDefaultArgs ==
    /\ ret' = generate_default_args
    /\ UNCHANGED <<settings, smi>>

GenerateFiltergraphs ==
    /\ ret' = generate_filtergraphs
    /\ UNCHANGED <<settings, smi>>

Args(stream_id) ==
    /\ ret' = args(stream_id)
    /\ UNCHANGED <<settings, smi>>

\* What a form-settings method hands back: the set_setting calls its
\* defaulter made, and the descriptor.
form_settings(name, calls, values) ==
    [ op |-> name, raised |-> "", set_calls |-> calls, values |-> values ]

\* Every form-settings method makes the set_setting calls of its defaulter,
\* then builds the descriptor.  No defaulter writes 'mode' or an AQ toggle,
\* the only keys the descriptors' display reads.
get_nvenc_device_form_settings ==
    LET hardware_devices == list_available_cuda_devices(smi)
        calls ==
            set_default_option(device_select_options(hardware_devices),
                               "nvenc_device",
                               device_default_option(hardware_devices))
    IN  /\ settings' = apply_calls(settings, calls)
        /\ ret' = form_settings("get_nvenc_device_form_settings", calls,
                                nvenc_device_values)
        /\ UNCHANGED smi

get_nvenc_decoding_method_form_settings ==
    /\ ret' = form_settings("get_nvenc_decoding_method_form_settings",
                            <<>>, nvenc_decoding_method_values)
    /\ UNCHANGED <<settings, smi>>

get_nvenc_preset_form_settings ==
    LET calls ==
            set_default_option(nvenc_preset_options, "nvenc_preset", PyStr("p4"))
    IN  /\ settings' = apply_calls(settings, calls)
        /\ ret' = form_settings("get_nvenc_preset_form_settings", calls,
                                nvenc_preset_values)
        /\ UNCHANGED smi

get_nvenc_tune_form_settings ==
    LET calls ==
            set_default_option(nvenc_tune_options, "nvenc_tune", PyStr("auto"))
    IN  /\ settings' = apply_calls(settings, calls)
        /\ ret' = form_settings("get_nvenc_tune_form_settings", calls,
                                nvenc_tune_values)
        /\ UNCHANGED smi

get_nvenc_profile_form_settings ==
    LET calls ==
            set_default_option(nvenc_profile_options, "nvenc_profile",
                               PyStr("main"))
    IN  /\ settings' = apply_calls(settings, calls)
        /\ ret' = form_settings("get_nvenc_profile_form_settings", calls,
                                nvenc_profile_values)
        /\ UNCHANGED smi

get_pixel_format_form_settings ==
    LET calls ==
            set_default_option(pixel_format_options, "pixel_format", PyStr("auto"))
    IN  /\ settings' = apply_calls(settings, calls)
        /\ ret' = form_settings("get_pixel_format_form_settings", calls,
                                pixel_format_values)
        /\ UNCHANGED smi

get_nvenc_encoder_ratecontrol_method_form_settings ==
    LET calls ==
            set_default_option(nvenc_encoder_ratecontrol_method_options,
                               "nvenc_encoder_ratecontrol_method",
                               PyStr("auto"))
    IN  /\ settings' = apply_calls(settings, calls)
        /\ ret' = form_settings(
                      "get_nvenc_encoder_ratecontrol_method_form_settings", calls,
                                nvenc_encoder_ratecontrol_method_values)
        /\ UNCHANGED smi

get_nvenc_encoder_ratecontrol_lookahead_form_settings ==
    /\ ret' = form_settings(
                  "get_nvenc_encoder_ratecontrol_lookahead_form_settings",
                  <<>>, nvenc_encoder_ratecontrol_lookahead_values)
    /\ UNCHANGED <<settings, smi>>

get_enable_spatial_aq_form_settings ==
    /\ ret' = form_settings("get_enable_spatial_aq_form_settings",
                            <<>>, enable_spatial_aq_values)
    /\ UNCHANGED <<settings, smi>>

get_enable_temporal_aq_form_settings ==
    /\ ret' = form_settings("get_enable_temporal_aq_form_settings",
                            <<>>, enable_temporal_aq_values)
    /\ UNCHANGED <<settings, smi>>

get_aq_strength_form_settings ==
    /\ ret' = form_settings("get_aq_strength_form_settings",
                            <<>>, aq_strength_values)
    /\ UNCHANGED <<settings, smi>>

\* The arguments of the six calls of __set_default_option.
DefaulterCalls ==
    LET hardware_devices == list_available_cuda_devices(smi) IN
    { [ select_options |-> device_select_options(hardware_devices),
        key            |-> "nvenc_device",
        default_option |-> device_default_option(hardware_devices) ],
      [ select_options |-> nvenc_preset_options,
        key            |-> "nvenc_preset",
        default_option |-> PyStr("p4") ],
      [ select_options |-> nvenc_tune_options,
        key            |-> "nvenc_tune",
        default_option |-> PyStr("auto") ],
      [ select_options |-> nvenc_profile_options,
        key            |-> "nvenc_profile",
        default_option |-> PyStr("main") ],
      [ select_options |-> pixel_format_options,
        key            |-> "pixel_format",
        default_option |-> PyStr("auto") ],
      [ select_options |-> nvenc_encoder_ratecontrol_method_options,
        key            |-> "nvenc_encoder_ratecontrol_method",
        default_option |-> PyStr("auto") ] }

\* One call of __set_default_option(select_options, key, default_option).
SetDefaultOption(select_options, key, default_option) ==
    LET calls == set_default_option(select_options, key, default_option) IN
    /\ settings' = apply_calls(settings, calls)
    /\ ret' = [ op |-> "__set_default_option", raised |-> "",
                select_options |-> select_options, key |-> key,
                default_option |-> default_option, set_calls |-> calls ]
    /\ UNCHANGED smi

\* Between two calls a GPU is added or removed, or nvidia-smi starts or
\* stops working.
SmiChanges ==
    /\ smi' \in SmiOutcomes \ {smi}
    /\ UNCHANGED <<settings, ret>>

(***************************************************************************)
(* Specifications.                                                         *)
(***************************************************************************)
\* The form settings, built in any order while the GPUs come and go.
Next ==
    \/ get_nvenc_device_form_settings
    \/ get_nvenc_decoding_method_form_settings
    \/ get_nvenc_preset_form_settings
    \/ get_nvenc_tune_form_settings
    \/ get_nvenc_profile_form_settings
    \/ get_pixel_format_form_settings
    \/ get_nvenc_encoder_ratecontrol_method_form_settings
    \/ get_nvenc_encoder_ratecontrol_lookahead_form_settings
    \/ get_enable_spatial_aq_form_settings
    \/ get_enable_temporal_aq_form_settings
    \/ get_aq_strength_form_settings
    \/ SmiChanges

Spec == Init /\ [][Next]_vars

\* args, on every store and stream id.
NextArgs == \E stream_id \in 0 .. MaxStream : Args(stream_id)

SpecArgs == InitArgs /\ [][NextArgs]_vars

\* generate_default_args and generate_filtergraphs, on every store and every
\* answer of nvidia-smi.
NextDecode == GenerateDefaultArgs \/ GenerateFiltergraphs

SpecDecode == InitDecode /\ [][NextDecode]_vars

(***************************************************************************)
(* Properties of args, checked under SpecArgs.                             *)
(***************************************************************************)
\* The positions of `token` in the list.
Positions(list, token) == { n \in 1 .. Len(list) : list[n] = token }

ArgsReturned == ret.op = "args" /\ ret.raised = ""

\* C1: in basic mode args(i) returns exactly
\* ['-preset', 'p4', '-profile:v:<i>', 'main'], whatever the stored preset,
\* tune, profile, rate control, look-ahead, AQ toggles and AQ strength are.
BasicModeArgs ==
    (ArgsReturned /\ get_setting("mode") = PyStr("basic"))
        => ret.stream_encoding
             = << "-preset", "p4",
                  "-profile:v:" \o ToString(ret.stream_id), "main" >>

\* Basic mode, stream 1, with no stored option at its default.
BasicModeArgsWitness ==
    /\ ArgsReturned
    /\ ret.stream_id = 1
    /\ get_setting("mode") = PyStr("basic")
    /\ get_setting("nvenc_preset") = PyStr("p1")
    /\ get_setting("nvenc_tune") = PyStr("hq")
    /\ get_setting("nvenc_profile") = PyStr("high")
    /\ get_setting("nvenc_encoder_ratecontrol_method") = PyStr("vbr")
    /\ get_setting("nvenc_encoder_ratecontrol_lookahead") = PyInt(1)
    /\ get_setting("enable_spatial_aq") = PyBool(TRUE)
    /\ get_setting("enable_temporal_aq") = PyBool(TRUE)
    /\ get_setting("aq_strength") = PyInt(15)
    /\ ret.stream_encoding = << "-preset", "p4", "-profile:v:1", "main" >>

\* C5: in standard mode with tune 'auto' the stream arguments hold neither
\* '-tune' nor '-profile:v:<i>'; with preset 'p1', tune 'auto' and every
\* other option at its default they are exactly ['-preset', 'p1'].
AutoTuneEmitsNoTuneNoProfile ==
    (/\ ArgsReturned
     /\ get_setting("mode") = PyStr("standard")
     /\ get_setting("nvenc_tune") = PyStr("auto"))
        => /\ Positions(ret.stream_encoding, "-tune") = {}
           /\ Positions(ret.stream_encoding,
                        "-profile:v:" \o ToString(ret.stream_id)) = {}
           /\ settings = [DefaultSettings EXCEPT !.nvenc_preset = PyStr("p1")]
                => ret.stream_encoding = << "-preset", "p1" >>

\* C7: in standard mode '-aq-strength:v:<i>' is in the stream arguments
\* exactly when spatial or temporal AQ is on; it is then there once, followed
\* by the stored AQ strength.
AqStrengthFlag ==
    (ArgsReturned /\ get_setting("mode") = PyStr("standard"))
        => LET list == ret.stream_encoding
               at == Positions(list, "-aq-strength:v:" \o ToString(ret.stream_id))
               on == \/ get_setting("enable_spatial_aq") = PyBool(TRUE)
                     \/ get_setting("enable_temporal_aq") = PyBool(TRUE)
           IN  /\ on => /\ Cardinality(at) = 1
                        /\ \A n \in at :
                             /\ n < Len(list)
                             /\ list[n + 1] = ToString(get_setting("aq_strength").int)
               /\ ~on => at = {}

\* Temporal AQ alone, on stream 1: the strength closes the list.
AqStrengthFlagWitness ==
    /\ ArgsReturned
    /\ ret.stream_id = 1
    /\ get_setting("mode") = PyStr("standard")
    /\ get_setting("enable_spatial_aq") = PyBool(FALSE)
    /\ get_setting("enable_temporal_aq") = PyBool(TRUE)
    /\ get_setting("aq_strength") = PyInt(15)
    /\ Len(ret.stream_encoding) >= 4
    /\ SubSeq(ret.stream_encoding, Len(ret.stream_encoding) - 3,
              Len(ret.stream_encoding))
         = << "-temporal-aq", "1", "-aq-strength:v:1", "15" >>

\* The flags of C8 in their fixed order, each with the option it comes from
\* and the value that follows it.
OrderedFlags(stream_id) ==
    << [ flag |-> "-preset", source |-> get_setting("nvenc_preset"),
         value |-> Str(get_setting("nvenc_preset")) ],
       [ flag |-> "-tune", source |-> get_setting("nvenc_tune"),
         value |-> Str(get_setting("nvenc_tune")) ],
       [ flag |-> "-profile:v:" \o ToString(stream_id),
         source |-> get_setting("nvenc_profile"),
         value |-> Str(get_setting("nvenc_profile")) ],
       [ flag |-> "-rc:v:" \o ToString(stream_id),
         source |-> get_setting("nvenc_encoder_ratecontrol_method"),
         value |-> Str(get_setting("nvenc_encoder_ratecontrol_method")) ],
       [ flag |-> "-rc-lookahead:v:" \o ToString(stream_id),
         source |-> get_setting("nvenc_encoder_ratecontrol_lookahead"),
         value |-> Str(get_setting("nvenc_encoder_ratecontrol_lookahead")) ],
       [ flag |-> "-spatial-aq", source |-> get_setting("enable_spatial_aq"),
         value |-> "1" ],
       [ flag |-> "-temporal-aq", source |-> get_setting("enable_temporal_aq"),
         value |-> "1" ],
       [ flag |-> "-aq-strength:v:" \o ToString(stream_id),
         source |-> PyBool(Truthy(get_setting("enable_spatial_aq"))
                           \/ Truthy(get_setting("enable_temporal_aq"))),
         value |-> Str(get_setting("aq_strength")) ] >>

\* C8: in standard mode the flags keep the order -preset, -tune, -profile:v,
\* -rc:v, -rc-lookahead:v, -spatial-aq, -temporal-aq, -aq-strength:v; each is
\* there at most once, followed by its value, and only when its option is
\* non-empty, not 'auto', non-zero and not false.
FlagsInOrderOnlyWhenSet ==
    (ArgsReturned /\ get_setting("mode") = PyStr("standard"))
        => LET list == ret.stream_encoding
               flags == OrderedFlags(ret.stream_id)
               at(k) == Positions(list, flags[k].flag)
           IN  /\ Len(list) % 2 = 0
               /\ \A n \in 1 .. Len(list) :
                    n % 2 = 1 => \E k \in 1 .. Len(flags) : n \in at(k)
               /\ \A k \in 1 .. Len(flags) :
                    /\ Cardinality(at(k)) <= 1
                    /\ \A n \in at(k) :
                         /\ n < Len(list)
                         /\ list[n + 1] = flags[k].value
                         /\ Truthy(flags[k].source)
                         /\ flags[k].source # PyStr("auto")
               /\ \A j, k \in 1 .. Len(flags) :
                    j < k => \A m \in at(j), n \in at(k) : m < n

(***************************************************************************)
(* Properties of generate_default_args and generate_filtergraphs, checked  *)
(* under SpecDecode.                                                       *)
(***************************************************************************)
DefaultArgsReturned == ret.op = "generate_default_args" /\ ret.raised = ""

\* The devices discovered by the call.
Inventory == list_available_cuda_devices(smi)

\* The configured device is the id of a discovered device.
ConfiguredIsDiscovered ==
    /\ get_setting("nvenc_device") # PyStr("none")
    /\ \E n \in 1 .. Len(Inventory) :
         get_setting("nvenc_device") = PyStr(Inventory[n].hwaccel_device)

DeviceResolution ==
    DefaultArgsReturned
        => /\ IsDict(ret.hardware_device)
           /\ \E n \in 1 .. Len(Inventory) :
                ret.hardware_device.dict = Inventory[n]
           /\ ConfiguredIsDiscovered
                => PyStr(ret.hardware_device.dict.hwaccel_device)
                     = get_setting("nvenc_device")
           /\ ~ConfiguredIsDiscovered
                => ret.hardware_device.dict = Inventory[1]

\* Devices 0 and 1 discovered, device 1 configured: the second is resolved.
DeviceResolutionWitness ==
    /\ DefaultArgsReturned
    /\ Len(Inventory) = 2
    /\ get_setting("nvenc_device") = PyStr("1")
    /\ ret.hardware_device.dict = Inventory[2]
    /\ Inventory[2].hwaccel_device = "1"

DecoderArgsNameMethodAndDevice ==
    DefaultArgsReturned
        => LET method == get_setting("nvenc_decoding_method") IN
           IF method = PyStr("cpu")
           THEN ret.generic_kwargs = <<>>
           ELSE ret.generic_kwargs
                  = << <<"-hwaccel", method>>,
                       <<"-hwaccel_device",
                         PyStr(ret.hardware_device.dict.hwaccel_device)>>,
                       <<"-init_hw_device", PyStr(method.str \o "=hw")>>,
                       <<"-filter_hw_device", PyStr("hw")>> >>

(***************************************************************************)
(* __set_default_option on its own: the select options and keys of its six *)
(* calls, each with the default of that call and with no default.          *)
(***************************************************************************)
NextDefaulter ==
    \E call \in DefaulterCalls :
        \E default_option \in { call.default_option, PyNone } :
            SetDefaultOption(call.select_options, call.key, default_option)

SpecDefaulter == InitDefaulter /\ [][NextDefaulter]_vars

(***************************************************************************)
(* Properties of the form settings, checked under Spec.                    *)
(***************************************************************************)
FormSettingsMethods ==
    { "get_nvenc_device_form_settings",
      "get_nvenc_decoding_method_form_settings",
      "get_nvenc_preset_form_settings",
      "get_nvenc_tune_form_settings",
      "get_nvenc_profile_form_settings",
      "get_pixel_format_form_settings",
      "get_nvenc_encoder_ratecontrol_method_form_settings",
      "get_nvenc_encoder_ratecontrol_lookahead_form_settings",
      "get_enable_spatial_aq_form_settings",
      "get_enable_temporal_aq_form_settings",
      "get_aq_strength_form_settings" }

\* The descriptor returned is marked hidden.
Hidden == "display" \in DOMAIN ret.values /\ ret.values["display"] = "hidden"

\* C9: outside standard mode every descriptor is hidden; in standard mode
\* none is, except the AQ strength, hidden exactly when spatial and temporal
\* AQ are both off.
DescriptorVisibility ==
    ret.op \in FormSettingsMethods
        => /\ get_setting("mode") # PyStr("standard") => Hidden
           /\ get_setting("mode") = PyStr("standard")
                => (Hidden <=>
                      /\ ret.op = "get_aq_strength_form_settings"
                      /\ get_setting("enable_spatial_aq") = PyBool(FALSE)
                      /\ get_setting("enable_temporal_aq") = PyBool(FALSE))

\* Standard mode with temporal AQ alone: the AQ strength is shown.
DescriptorVisibilityWitness ==
    /\ ret.op = "get_aq_strength_form_settings"
    /\ get_setting("mode") = PyStr("standard")
    /\ get_setting("enable_spatial_aq") = PyBool(FALSE)
    /\ get_setting("enable_temporal_aq") = PyBool(TRUE)
    /\ ~Hidden

(***************************************************************************)
(* Properties of __set_default_option, checked under SpecDefaulter.        *)
(***************************************************************************)
\* The allowed values of the call that returned.
Allowed(call) ==
    { call.select_options[n].value : n \in 1 .. Len(call.select_options) }

\* C10: a call writes exactly when the stored value of its key is not an
\* allowed value; it then writes the default given, or the first allowed
\* value when none is given, and nothing else.  After the call the stored
\* value is allowed, and the same call made again writes nothing.
DefaulterWritesWhenInvalid ==
    [][ ret'.op = "__set_default_option"
          => LET call == ret'
                 written == IF call.default_option # PyNone
                            THEN call.default_option
                            ELSE call.select_options[1].value
             IN  /\ settings[call.key] \in Allowed(call)
                      => call.set_calls = <<>> /\ settings' = settings
                 /\ settings[call.key] \notin Allowed(call)
                      => /\ call.set_calls = << <<call.key, written>> >>
                         /\ settings' = [settings EXCEPT ![call.key] = written]
                 /\ settings'[call.key] \in Allowed(call)
                 /\ (set_default_option(ret.select_options, ret.key,
                                        ret.default_option) = <<>>)'
      ]_vars

\* No preset stored and no default given: the first preset was written.
DefaulterWritesWhenInvalidWitness ==
    /\ ret.op = "__set_default_option"
    /\ ret.key = "nvenc_preset"
    /\ ret.default_option = PyNone
    /\ ret.set_calls = << <<"nvenc_preset", PyStr("p1")>> >>
    /\ get_setting("nvenc_preset") = PyStr("p1")

(***************************************************************************)
(* The stored device across inventory changes, checked under Spec.         *)
(***************************************************************************)
\* The step is a call of get_nvenc_device_form_settings.
DeviceFormBuilt ==
    smi' = smi /\ ret'.op = "get_nvenc_device_form_settings"

\* The ids of the devices discovered in the current state.
DiscoveredIds ==
    { PyStr(Inventory[n].hwaccel_device) : n \in 1 .. Len(Inventory) }

\* C11: however the inventory changed before, right after a build of the
\* device descriptor the stored device is one of the descriptor's choices:
\* the id of a discovered device when there is one (the first when the
\* device stored before is 'none' or no longer discovered), 'none' when
\* there is none.  A stored device that is still discovered is kept.
StoredDeviceFollowsInventory ==
    [][ DeviceFormBuilt
          => LET before == settings["nvenc_device"]
                 after == settings'["nvenc_device"]
                 choices == { ret'.values.select_options[n].value :
                                n \in 1 .. Len(ret'.values.select_options) }
             IN  /\ after \in choices
                 /\ Inventory # <<>>
                      => /\ choices = DiscoveredIds
                         /\ before \in DiscoveredIds => after = before
                         /\ before \notin DiscoveredIds
                              => after = PyStr(Inventory[1].hwaccel_device)
                 /\ Inventory = <<>>
                      => choices = { PyStr("none") } /\ after = PyStr("none")
                 /\ \A k \in DOMAIN settings \ {"nvenc_device"} :
                      settings'[k] = settings[k]
      ]_vars

\* Only GPU 1 is left and the build has just moved the stored device to it.
StoredDeviceFollowsInventoryWitness ==
    /\ ret.op = "get_nvenc_device_form_settings"
    /\ Len(Inventory) = 1
    /\ Inventory[1].hwaccel_device = "1"
    /\ ret.set_calls = << <<"nvenc_device", PyStr("1")>> >>
    /\ get_setting("nvenc_device") = PyStr("1")
    /\ Len(ret.values.select_options) = 1
    /\ ret.values.select_options[1].value = PyStr("1")

====
